---- MODULE Spec2Model ----
(***************************************************************************)
(* Model of the image renaming pipeline: the composable useFileSystem      *)
(* (src/composables/useFileSystem.ts) and the handlers of the page that    *)
(* drives it (src/pages/index.vue).                                        *)
(*                                                                         *)
(* JavaScript runs one handler at a time and a handler gives up control    *)
(* only at an await, so every action below is the run of one handler from  *)
(* one suspension point to the next.  File names, MIME types, cell values  *)
(* and status messages are strings and are taken apart character by        *)
(* character the way the code does it.                                     *)
(***************************************************************************)
EXTENDS Integers, Sequences, FiniteSets, TLC

(***************************************************************************)
(* Strings                                                                 *)
(***************************************************************************)

\* The value of an absent optional string (newName?: string, a missing cell).
Undefined == "<undefined>"

\* No directory handle (ref(null)).
NoHandle == "<null>"

\* An absent EXIF date field.
NoDate == -1

UpperCase == <<"A","B","C","D","E","F","G","H","I","J","K","L","M","N","O","P","Q","R","S","T","U","V","W","X","Y","Z">>
LowerCase == <<"a","b","c","d","e","f","g","h","i","j","k","l","m","n","o","p","q","r","s","t","u","v","w","x","y","z">>

\* String.prototype.toLowerCase on one character.
LowerChar(c) ==
  IF \E k \in 1..26 : UpperCase[k] = c
  THEN LowerCase[CHOOSE k \in 1..26 : UpperCase[k] = c]
  ELSE c

\* String.prototype.toLowerCase.
RECURSIVE toLowerCase(_)
toLowerCase(s) ==
  IF Len(s) = 0 THEN s
  ELSE LowerChar(SubSeq(s, 1, 1)) \o toLowerCase(SubSeq(s, 2, Len(s)))

\* Position of the last "." of s, 0 when s has none.
LastDot(s) ==
  IF \E k \in 1..Len(s) : SubSeq(s, k, k) = "."
  THEN CHOOSE k \in 1..Len(s) :
         /\ SubSeq(s, k, k) = "."
         /\ \A j \in (k+1)..Len(s) : SubSeq(s, j, j) # "."
  ELSE 0

\* s.split('.').pop(): the text after the last ".", the whole of s when s
\* has no "." .
splitPop(s) == SubSeq(s, LastDot(s) + 1, Len(s))

\* String.prototype.includes.
includes(s, sub) ==
  \E k \in 1..(Len(s) - Len(sub) + 1) : SubSeq(s, k, k + Len(sub) - 1) = sub

\* String.prototype.endsWith.
endsWith(s, suf) ==
  /\ Len(suf) <= Len(s)
  /\ SubSeq(s, Len(s) - Len(suf) + 1, Len(s)) = suf

(***************************************************************************)
(* Format classifier                                                       *)
(***************************************************************************)

SUPPORTED_FORMATS ==
  { "image/jpeg", "image/png", "image/webp",
    "image/arw", "image/x-sony-arw", "image/cr2", "image/x-canon-cr2",
    "image/nef", "image/x-nikon-nef", "image/raf", "image/x-fuji-raf",
    "image/raw", "image/x-raw" }

RAW_EXTENSIONS == { "arw", "cr2", "nef", "raf", "raw", "rw2", "orf", "dng" }

\* A classifier that compares the extension as it is written.
isImageFileCaseSensitive(file) ==
  IF file.type \in SUPPORTED_FORMATS
  THEN [ isSupported |-> TRUE,
         isRaw |-> \/ includes(file.type, "raw") \/ includes(file.type, "arw")
                   \/ includes(file.type, "cr2") \/ includes(file.type, "nef")
                   \/ includes(file.type, "raf") ]
  ELSE LET extension == splitPop(file.name) IN
       IF extension # ""
       THEN [ isSupported |-> extension \in RAW_EXTENSIONS,
              isRaw |-> extension \in RAW_EXTENSIONS ]
       ELSE [ isSupported |-> FALSE, isRaw |-> FALSE ]

\* isImageFile: the MIME type first, the extension when it is not listed.
isImageFile(file) ==
  IF file.type \in SUPPORTED_FORMATS
  THEN [ isSupported |-> TRUE,
         isRaw |-> \/ includes(file.type, "raw") \/ includes(file.type, "arw")
                   \/ includes(file.type, "cr2") \/ includes(file.type, "nef")
                   \/ includes(file.type, "raf") ]
  ELSE LET extension == toLowerCase(splitPop(file.name)) IN
       IF extension # ""
       THEN [ isSupported |-> extension \in RAW_EXTENSIONS,
              isRaw |-> extension \in RAW_EXTENSIONS ]
       ELSE [ isSupported |-> FALSE, isRaw |-> FALSE ]

(***************************************************************************)
(* The file system the pickers open                                        *)
(***************************************************************************)

\* What exifr reports for a file that carries no readable EXIF block.
NoExif == [ throws |-> FALSE, DateTimeOriginal |-> NoDate, CreateDate |-> NoDate ]

\* What decoding a picture gives: whether the img element loads, its width
\* and height, and whether the product height * (maxDimension / width) of
\* the resize, computed in floating point, falls just below the integer it
\* is equal to in exact arithmetic.
Decoded(width, height, below) ==
  [ decodes |-> TRUE, width |-> width, height |-> height, below |-> below ]
Undecodable ==
  [ decodes |-> FALSE, width |-> 0, height |-> 0, below |-> FALSE ]

\* What exifr answers when asked for the embedded preview of a file: it
\* throws, it finds none, or it finds one, a picture of its own.
PreviewThrows == [ throws |-> TRUE, found |-> FALSE, picture |-> Undecodable ]
NoPreview == [ throws |-> FALSE, found |-> FALSE, picture |-> Undecodable ]
Preview(picture) == [ throws |-> FALSE, found |-> TRUE, picture |-> picture ]

\* A File together with what the browser and exifr answer when asked about
\* it: its EXIF dates, its embedded preview, its decoded picture, and
\* whether the canvas made for its thumbnail and the canvas made for its
\* placeholder give a 2d context.
ProbeFile(dir, name, type, lastModified, exif, preview, picture, context, placeholderContext) ==
  [ name |-> name, type |-> type, lastModified |-> lastModified,
    exif |-> exif, dir |-> dir, bytes |-> "bytes of " \o dir \o "/" \o name,
    preview |-> preview, picture |-> picture, context |-> context,
    placeholderContext |-> placeholderContext ]

\* A File as FileSystemFileHandle.getFile() returns it.  dir and bytes say
\* which stored file the object is a snapshot of.  The files of the folders
\* below carry no embedded preview and decode to small pictures.
FileOf(dir, name, type, lastModified, exif) ==
  ProbeFile(dir, name, type, lastModified, exif, NoPreview,
            Decoded(4, 3, FALSE), TRUE, TRUE)

FileEntry(dir, name, type, lastModified, exif) ==
  [ kind |-> "file", name |-> name,
    file |-> FileOf(dir, name, type, lastModified, exif) ]

DirectoryEntry(name) ==
  [ kind |-> "directory", name |-> name,
    file |-> FileOf("", name, "", 0, NoExif) ]

Photos == "/photos"
Other == "/other"

Folders == { Photos, Other }

\* The folders the user picks as the source and as the destination.
InputFolders == { Photos, Other }
OutputFolders == { Other, Photos }

\* The entries of each folder, in the order entries() yields them.
FolderEntries(h) ==
  CASE h = Photos ->
         << FileEntry(Photos, "IMG_0007.JPG", "image/jpeg", 9,
                      [ throws |-> FALSE, DateTimeOriginal |-> 2, CreateDate |-> 5 ]),
            FileEntry(Photos, "raw", "", 1, NoExif),
            FileEntry(Photos, "notes.txt", "text/plain", 0, NoExif),
            FileEntry(Photos, "b.jpg", "image/jpeg", 7,
                      [ throws |-> FALSE, DateTimeOriginal |-> NoDate, CreateDate |-> 2 ]) >>
    [] h = Other ->
         << FileEntry(Other, "pic.", "image/png", 4,
                      [ throws |-> TRUE, DateTimeOriginal |-> NoDate, CreateDate |-> NoDate ]),
            DirectoryEntry("sub"),
            FileEntry(Other, "b.jpg", "image/jpeg", 3, NoExif) >>
    [] OTHER -> << >>

\* The stored files of a folder before any export: name -> bytes.
InitialFiles(h) ==
  LET es == FolderEntries(h)
      fs == { i \in 1..Len(es) : es[i].kind = "file" } IN
  [ n \in { es[i].name : i \in fs } |->
      (CHOOSE i \in fs : es[i].name = n) ]

InitialDisk ==
  [ h \in Folders |->
      [ n \in DOMAIN InitialFiles(h) |->
          FolderEntries(h)[InitialFiles(h)[n]].file.bytes ] ]

(***************************************************************************)
(* The tabular datasets Papa.parse can deliver                             *)
(***************************************************************************)

Columns == { "name", "tag" }

Roster ==
  << [ name |-> "",      tag |-> "c" ],
     [ name |-> "Alpha", tag |-> "c" ] >>

Long ==
  << [ name |-> "b",     tag |-> "x" ],
     [ name |-> "Beta" ],
     [ name |-> "Gamma", tag |-> "y" ],
     [ name |-> "Delta", tag |-> "z" ] >>

Datasets == { << >>, Roster, Long }

(***************************************************************************)
(* Metadata extractor, thumbnail synthesizer                               *)
(***************************************************************************)

\* An extractor that looks at CreateDate first.
getImageDateTimeCreateFirst(file) ==
  IF file.exif.throws THEN file.lastModified
  ELSE IF file.exif.CreateDate # NoDate THEN file.exif.CreateDate
  ELSE IF file.exif.DateTimeOriginal # NoDate THEN file.exif.DateTimeOriginal
  ELSE file.lastModified

\* getImageDateTime: the time value of the Date it resolves to.
getImageDateTime(file) ==
  IF file.exif.throws THEN file.lastModified
  ELSE IF file.exif.DateTimeOriginal # NoDate THEN file.exif.DateTimeOriginal
  ELSE IF file.exif.CreateDate # NoDate THEN file.exif.CreateDate
  ELSE file.lastModified

maxDimension == 400

\* An encoded image as canvas.toDataURL('image/webp', 0.8) returns it: the
\* size of the canvas and what was drawn on it.
DataURL(width, height, content) ==
  [ format |-> "image/webp", width |-> width, height |-> height,
    content |-> content ]

\* Stands for an exception on its way to the next catch block.
Thrown == DataURL(0, 0, "<thrown>")

\* The empty string generatePlaceholderThumbnail returns without a context.
Empty == DataURL(0, 0, "")

\* generatePlaceholderThumbnail: "RAW" and the file name on a canvas; context
\* says whether the canvas gives a 2d context.
generatePlaceholderThumbnail(filename, context) ==
  IF ~context THEN Empty
  ELSE DataURL(400, 400, "RAW " \o filename)

\* edge * (maxDimension / longer) as the canvas takes it: the canvas keeps
\* the integer part, and the floating point product may fall just below an
\* integer that the exact product is equal to.
Scaled(edge, longer, below) ==
  LET product == edge * maxDimension IN
  IF product % longer = 0 /\ below
  THEN (product \div longer) - 1
  ELSE product \div longer

\* A resize that clamps the width whatever the orientation.
ResizeByWidth(width, height, below) ==
  IF width > maxDimension
  THEN [ width |-> maxDimension, height |-> Scaled(height, width, below) ]
  ELSE [ width |-> width, height |-> height ]

\* The resize of both branches of createImageThumbnail: the size of the
\* canvas for a picture of the given width and height.
Resize(width, height, below) ==
  IF width > height
  THEN IF width > maxDimension
       THEN [ width |-> maxDimension, height |-> Scaled(height, width, below) ]
       ELSE [ width |-> width, height |-> height ]
  ELSE IF height > maxDimension
       THEN [ width |-> Scaled(width, height, below), height |-> maxDimension ]
       ELSE [ width |-> width, height |-> height ]

\* From the img element to toDataURL: load the picture, resize, get the
\* context, draw.  A picture that does not load and a canvas without a
\* context throw.
DrawThumbnail(picture, context, content) ==
  IF ~picture.decodes THEN Thrown
  ELSE LET size == Resize(picture.width, picture.height, picture.below) IN
       IF ~context THEN Thrown
       ELSE DataURL(size.width, size.height, content)

\* createImageThumbnail without the outer try/catch.
createThumbnailUnguarded(file, isRaw) ==
  IF isRaw
  THEN generatePlaceholderThumbnail(file.name, file.placeholderContext)
  ELSE DrawThumbnail(file.picture, file.context, file.bytes)

\* createImageThumbnail: the value its promise resolves to.
createImageThumbnail(file, isRaw) ==
  IF isRaw
  THEN LET preview ==
             IF file.preview.throws \/ ~file.preview.found THEN Thrown
             ELSE DrawThumbnail(file.preview.picture, file.context,
                                "preview of " \o file.bytes) IN
       IF preview = Thrown
       THEN generatePlaceholderThumbnail(file.name, file.placeholderContext)
       ELSE preview
  ELSE LET drawn == DrawThumbnail(file.picture, file.context, file.bytes) IN
       IF drawn = Thrown
       THEN generatePlaceholderThumbnail(file.name, file.placeholderContext)
       ELSE drawn

(***************************************************************************)
(* Ordering of the asset collection                                        *)
(***************************************************************************)

\* The comparator of the sort call: a.dateTime.getTime() - b.dateTime.getTime().
compare(a, b) == a.dateTime - b.dateTime

\* A sort that is not stable: x goes in front of the elements it ties with.
RECURSIVE InsertUnstable(_, _)
InsertUnstable(x, s) ==
  IF s = << >> THEN << x >>
  ELSE IF compare(Head(s), x) >= 0 THEN << x >> \o s
  ELSE << Head(s) >> \o InsertUnstable(x, Tail(s))

\* x put into the sorted sequence s behind every element that does not
\* compare greater than it.
RECURSIVE InsertSorted(_, _)
InsertSorted(x, s) ==
  IF s = << >> THEN << x >>
  ELSE IF compare(Head(s), x) > 0 THEN << x >> \o s
  ELSE << Head(s) >> \o InsertSorted(x, Tail(s))

\* Array.prototype.sort with the comparator above; the sort is stable.
RECURSIVE SortFrom(_, _)
SortFrom(done, rest) ==
  IF rest = << >> THEN done
  ELSE SortFrom(InsertSorted(Head(rest), done), Tail(rest))

sort(imageFiles) == SortFrom(<< >>, imageFiles)

(***************************************************************************)
(* Name projection                                                         *)
(***************************************************************************)

\* csvRow[selectedColumn.value]: Undefined when the row has no such field.
Cell(csvRow, column) ==
  IF column \in DOMAIN csvRow THEN csvRow[column] ELSE Undefined

\* !value for a string or undefined.
Falsy(value) == value = Undefined \/ value = ""

\* img.file.name.split('.').pop()?.toLowerCase() || 'jpg'
extensionOf(name) ==
  LET e == toLowerCase(splitPop(name)) IN
  IF Falsy(e) THEN "jpg" ELSE e

\* The callback of the second images.value.map: index counts from 1 here.
ProjectName(img, index, data, column) ==
  IF index > Len(data) \/ Falsy(Cell(data[index], column))
  THEN Undefined
  ELSE Cell(data[index], column) \o "." \o extensionOf(img.file.name)

\* A projection that keeps a name once given and renames from it.
updateFromPreviousNames(imgs, data, column) ==
  IF Falsy(column) \/ Len(data) = 0
  THEN [ i \in 1..Len(imgs) |-> [ imgs[i] EXCEPT !.newName = Undefined ] ]
  ELSE [ i \in 1..Len(imgs) |->
           [ imgs[i] EXCEPT !.newName =
               IF Falsy(imgs[i].newName)
               THEN ProjectName(imgs[i], i, data, column)
               ELSE imgs[i].newName \o "." \o extensionOf(imgs[i].file.name) ] ]

\* A projection that gives up the assets it has no name for.
updateDroppingUnnamed(imgs, data, column) ==
  IF Falsy(column) \/ Len(data) = 0
  THEN [ i \in 1..Len(imgs) |-> [ imgs[i] EXCEPT !.newName = Undefined ] ]
  ELSE SelectSeq([ i \in 1..Len(imgs) |->
                     [ imgs[i] EXCEPT
                         !.newName = ProjectName(imgs[i], i, data, column) ] ],
                 LAMBDA img : img.newName # Undefined)

\* updatePreviewNames as a function of the three refs it reads; the result
\* is the new value of images.
updatePreviewNames(imgs, data, column) ==
  IF Falsy(column) \/ Len(data) = 0
  THEN [ i \in 1..Len(imgs) |-> [ imgs[i] EXCEPT !.newName = Undefined ] ]
  ELSE [ i \in 1..Len(imgs) |->
           [ imgs[i] EXCEPT !.newName = ProjectName(imgs[i], i, data, column) ] ]

(***************************************************************************)
(* Bounds                                                                  *)
(***************************************************************************)

\* The calls one behaviour may make of selectFolder, of parseCSV and of
\* renameImages (those that get past its first statement): when the
\* composable is called directly, and when the page calls it.
MaxSelectCalls == 2
MaxParseCalls == 2
MaxRenameCalls == 1
MaxPageSelects == 1
MaxPageUploads == 2
MaxPageRenames == 1

\* The calls of a behaviour in which the page starts an export twice.
MaxRepeatUploads == 1
MaxRepeatRenames == 2

\* Handler calls that may be suspended at the same time.
MaxInFlight == 2

(***************************************************************************)
(* State                                                                   *)
(***************************************************************************)

VARIABLES
  images,           \* ref<ImageWithMetadata[]>
  dirHandle,        \* ref<FileSystemDirectoryHandle | null>
  outputDirHandle,  \* ref<FileSystemDirectoryHandle | null>
  csvData,          \* ref<any[]>
  status,           \* ref('')
  isProcessing,     \* ref(false)
  selectedColumn,   \* ref('')
  hasRawFiles,      \* ref(false)
  hasPicker,        \* 'showDirectoryPicker' in window
  disk,             \* the stored files of every folder: name -> bytes
  selecting,        \* the suspended selectFolder calls
  parsing,          \* the number of suspended parseCSV calls
  renaming,         \* the suspended renameImages calls
  thrown,           \* what the latest renameImages call threw to its caller
  calls             \* the calls of each asynchronous handler still to come

refs == << images, dirHandle, outputDirHandle, csvData, status, isProcessing,
           selectedColumn, hasRawFiles >>

vars == << images, dirHandle, outputDirHandle, csvData, status, isProcessing,
           selectedColumn, hasRawFiles, hasPicker, disk, selecting, parsing,
           renaming, thrown, calls >>

\* A selectFolder call that is not running: the locals hold nothing.
IdleSelect == [ pc |-> "idle", handle |-> NoHandle ]

\* A renameImages call that is not running.
IdleRename ==
  [ pc |-> "idle", images |-> << >>, index |-> 0, successCount |-> 0,
    errorCount |-> 0, currentFile |-> "", newHandle |-> NoHandle,
    source |-> NoHandle, buffer |-> "" ]

\* The handler calls that are suspended at an await.
InFlight ==
  Cardinality({ s \in 1..MaxInFlight : selecting[s].pc # "idle" })
    + Cardinality({ r \in 1..MaxInFlight : renaming[r].pc # "idle" })
    + parsing

\* An asynchronous handler is called.
Called(handler) ==
  /\ calls[handler] > 0
  /\ calls' = [ calls EXCEPT ![handler] = @ - 1 ]

\* The refs as useFileSystem() creates them, and nothing suspended.
Constructed ==
  /\ images = << >>
  /\ dirHandle = NoHandle
  /\ outputDirHandle = NoHandle
  /\ csvData = << >>
  /\ status = ""
  /\ isProcessing = FALSE
  /\ selectedColumn = ""
  /\ hasRawFiles = FALSE
  /\ hasPicker \in BOOLEAN
  /\ disk = InitialDisk
  /\ selecting = [ s \in 1..MaxInFlight |-> IdleSelect ]
  /\ parsing = 0
  /\ renaming = [ r \in 1..MaxInFlight |-> IdleRename ]
  /\ thrown = ""

Init ==
  /\ Constructed
  /\ calls = [ selectFolder |-> MaxSelectCalls, parseCSV |-> MaxParseCalls,
               renameImages |-> MaxRenameCalls ]

(***************************************************************************)
(* selectFolder                                                            *)
(***************************************************************************)

\* The slot a new selectFolder call takes.
FreeSelect(s) ==
  /\ selecting[s].pc = "idle"
  /\ \A t \in 1..(s - 1) : selecting[t].pc # "idle"

\* selectFolder up to the await of the directory picker.
SelectFolderCall ==
  /\ Called("selectFolder")
  /\ thrown' = ""
  /\ IF hasPicker
     THEN /\ InFlight < MaxInFlight
          /\ \E s \in 1..MaxInFlight :
               /\ FreeSelect(s)
               /\ selecting' = [ selecting EXCEPT ![s].pc = "picker" ]
          /\ status' = "Selecting input folder..."
     ELSE /\ status' = "File System Access API not supported in this browser"
          /\ UNCHANGED selecting
  /\ UNCHANGED << images, dirHandle, outputDirHandle, csvData, isProcessing,
                  selectedColumn, hasRawFiles, hasPicker, disk, parsing,
                  renaming >>

\* The picker resolves with the folder h; the folder is one no export has
\* written to, so that its entries are FolderEntries(h).
SelectFolderPicked(s, h) ==
  /\ selecting[s].pc = "picker"
  /\ disk[h] = InitialDisk[h]
  /\ dirHandle' = h
  /\ status' = "Reading images from folder..."
  /\ selecting' = [ selecting EXCEPT ![s] = [ pc |-> "entries", handle |-> h ] ]
  /\ UNCHANGED << images, outputDirHandle, csvData, isProcessing,
                  selectedColumn, hasRawFiles, hasPicker, disk, parsing, renaming, thrown, calls >>

\* The catch block of selectFolder.
SelectFolderCatch(s, message) ==
  /\ status' = "Error: " \o message
  /\ selecting' = [ selecting EXCEPT ![s] = IdleSelect ]
  /\ UNCHANGED << images, dirHandle, outputDirHandle, csvData, isProcessing,
                  selectedColumn, hasRawFiles, hasPicker, disk, parsing, renaming, thrown, calls >>

\* The picker rejects: the user dismissed it.
SelectFolderPickerRejects(s) ==
  /\ selecting[s].pc = "picker"
  /\ SelectFolderCatch(s, "The user aborted a request.")

\* The body of the for await loop for one entry: the asset it pushes.
\* (The awaits inside the loop touch only the locals of the call, so the
\* whole loop is taken in the step that ends it.)
AssetOf(entry) ==
  LET file == entry.file
      class == isImageFile(file) IN
  [ file |-> file,
    dateTime |-> getImageDateTime(file),
    name |-> file.name,
    thumbnail |-> createImageThumbnail(file, class.isRaw),
    isRaw |-> class.isRaw,
    newName |-> Undefined ]

\* imageFiles after the loop has run over the entries from position next on.
RECURSIVE ReadEntries(_, _, _)
ReadEntries(entries, next, imageFiles) ==
  IF next > Len(entries) THEN imageFiles
  ELSE LET entry == entries[next] IN
       ReadEntries(entries, next + 1,
                   IF entry.kind = "file" /\ isImageFile(entry.file).isSupported
                   THEN Append(imageFiles, AssetOf(entry))
                   ELSE imageFiles)

\* rawCount after the loop.
RawCount(imageFiles) ==
  Cardinality({ i \in 1..Len(imageFiles) : imageFiles[i].isRaw })

\* entries() rejects: the folder cannot be enumerated.
SelectFolderEntriesRejects(s) ==
  /\ selecting[s].pc = "entries"
  /\ SelectFolderCatch(s, "The request is not allowed by the user agent.")

\* getFile() rejects for an entry while the folder is read: nothing in the
\* loop catches it, so it gets to the catch block of selectFolder.
SelectFolderReadRejects(s) ==
  /\ selecting[s].pc = "entries"
  /\ SelectFolderCatch(s, "The requested file could not be read.")

\* The loop has ended: the sorted assets are published and projected.
SelectFolderLoaded(s) ==
  LET imageFiles == ReadEntries(FolderEntries(selecting[s].handle), 1, << >>)
      rawCount == RawCount(imageFiles) IN
  /\ selecting[s].pc = "entries"
  /\ hasRawFiles' = (rawCount > 0)
  /\ images' = updatePreviewNames(sort(imageFiles), csvData, selectedColumn)
  /\ status' = "Loaded " \o ToString(Len(imageFiles)) \o " images ("
                 \o ToString(rawCount) \o " RAW), sorted by capture time"
  /\ selecting' = [ selecting EXCEPT ![s] = IdleSelect ]
  /\ UNCHANGED << dirHandle, outputDirHandle, csvData, isProcessing,
                  selectedColumn, hasPicker, disk, parsing, renaming, thrown,
                  calls >>

(***************************************************************************)
(* parseCSV, updatePreviewNames and the page handlers that call them       *)
(***************************************************************************)

\* parseCSV up to the point where Papa.parse reads the file.
ParseCSVCall ==
  /\ Called("parseCSV")
  /\ InFlight < MaxInFlight
  /\ parsing' = parsing + 1
  /\ thrown' = ""
  /\ UNCHANGED << refs, hasPicker, disk, selecting, renaming >>

\* The complete callback of Papa.parse.
ParseCSVComplete(data) ==
  /\ parsing > 0
  /\ parsing' = parsing - 1
  /\ csvData' = data
  /\ status' = "Loaded " \o ToString(Len(data)) \o " records from CSV"
  /\ images' = updatePreviewNames(images, data, selectedColumn)
  /\ UNCHANGED << dirHandle, outputDirHandle, isProcessing, selectedColumn,
                  hasRawFiles, hasPicker, disk, selecting, renaming, thrown,
                  calls >>

\* The complete callback of the parseCSV call of handleCSVUpload, and the
\* rest of handleCSVUpload, which runs as soon as the promise is resolved.
HandleCSVUploadComplete(data) ==
  /\ parsing > 0
  /\ parsing' = parsing - 1
  /\ csvData' = data
  /\ status' = "Loaded " \o ToString(Len(data)) \o " records from CSV"
  /\ images' = updatePreviewNames(images, data, selectedColumn)
  /\ selectedColumn' = ""
  /\ UNCHANGED << dirHandle, outputDirHandle, isProcessing, hasRawFiles,
                  hasPicker, disk, selecting, renaming, thrown, calls >>

\* The error callback of Papa.parse; handleCSVUpload catches the rejection.
ParseCSVError ==
  /\ parsing > 0
  /\ parsing' = parsing - 1
  /\ status' = "CSV parsing error: NotReadableError"
  /\ UNCHANGED << images, dirHandle, outputDirHandle, csvData, isProcessing,
                  selectedColumn, hasRawFiles, hasPicker, disk, selecting,
                  renaming, thrown, calls >>

\* csvColumns of the page.
csvColumns ==
  IF Len(csvData) = 0 THEN { } ELSE DOMAIN csvData[1]

\* The column select of the page: v-model stores the chosen option, then
\* the change handler runs updatePreviewNames.
ColumnChange(column) ==
  /\ Len(csvData) > 0
  /\ column \in csvColumns \cup { "" }
  /\ column # selectedColumn
  /\ selectedColumn' = column
  /\ images' = updatePreviewNames(images, csvData, column)
  /\ thrown' = ""
  /\ UNCHANGED << dirHandle, outputDirHandle, csvData, status, isProcessing,
                  hasRawFiles, hasPicker, disk, selecting, parsing, renaming,
                  calls >>

\* A call of the exported updatePreviewNames.
UpdatePreviewNamesCall ==
  /\ images' = updatePreviewNames(images, csvData, selectedColumn)
  /\ thrown' = ""
  /\ UNCHANGED << dirHandle, outputDirHandle, csvData, status, isProcessing,
                  selectedColumn, hasRawFiles, hasPicker, disk, selecting,
                  parsing, renaming, calls >>

(***************************************************************************)
(* renameImages                                                            *)
(***************************************************************************)

\* A guard that does not look at the selected column.
PreconditionIgnoresColumn ==
  \/ dirHandle = NoHandle
  \/ Len(csvData) = 0
  \/ Len(images) = 0

\* The guard of the first statement of renameImages: true when it throws.
PreconditionFails ==
  \/ dirHandle = NoHandle
  \/ Len(csvData) = 0
  \/ Len(images) = 0
  \/ Falsy(selectedColumn)

PreconditionMessage == "Please select both folder and CSV first"

\* The slot a new renameImages call takes.
FreeRename(r) ==
  /\ renaming[r].pc = "idle"
  /\ \A t \in 1..(r - 1) : renaming[t].pc # "idle"

\* The assets without a name at the positions from..to.
Unnamed(imgs, from, to) ==
  Cardinality({ k \in from..to : imgs[k].newName = Undefined })

\* A loop that does not look at newName: the asset right behind from.
NextAsset(imgs, from) == from + 1

\* The first position behind from whose asset has a newName; Len(imgs) + 1
\* when there is none.  The loop passes the assets in between without an
\* await, counting each as an error.
NextNamed(imgs, from) ==
  LET named == { j \in (from + 1)..Len(imgs) : ~Falsy(imgs[j].newName) } IN
  IF named = { } THEN Len(imgs) + 1
  ELSE CHOOSE j \in named : \A k \in named : j <= k

CopiedStatus(successCount, errorCount) ==
  "Copied and renamed " \o ToString(successCount) \o " images. "
    \o ToString(errorCount) \o " errors."

\* A loop whose end leaves isProcessing as it is: no finally block.
RunLoopWithoutFinally(r, imgs, from, successCount, errorCount, out) ==
  LET j == NextNamed(imgs, from)
      errors == errorCount + (j - from - 1) IN
  IF j <= Len(imgs)
  THEN /\ renaming' =
            [ renaming EXCEPT
                ![r] = [ pc |-> "create", images |-> imgs, index |-> j,
                         successCount |-> successCount, errorCount |-> errors,
                         currentFile |-> imgs[j].file.name,
                         newHandle |-> out, source |-> NoHandle,
                         buffer |-> "" ] ]
       /\ status' = "Processing " \o imgs[j].file.name \o " -> " \o imgs[j].newName
       /\ isProcessing' = TRUE
  ELSE /\ renaming' = [ renaming EXCEPT ![r] = IdleRename ]
       /\ status' = CopiedStatus(successCount, errors)
       /\ isProcessing' = TRUE

\* The for loop of call r from the asset behind position from up to its next
\* await or to the end of renameImages.  out is outputDirHandle.value.
RunLoop(r, imgs, from, successCount, errorCount, out) ==
  LET j == NextNamed(imgs, from)
      errors == errorCount + (j - from - 1) IN
  IF j <= Len(imgs)
  THEN /\ renaming' =
            [ renaming EXCEPT
                ![r] = [ pc |-> "create", images |-> imgs, index |-> j,
                         successCount |-> successCount, errorCount |-> errors,
                         currentFile |-> imgs[j].file.name,
                         newHandle |-> out, source |-> NoHandle,
                         buffer |-> "" ] ]
       /\ status' = "Processing " \o imgs[j].file.name \o " -> " \o imgs[j].newName
       /\ isProcessing' = TRUE
  ELSE /\ renaming' = [ renaming EXCEPT ![r] = IdleRename ]
       /\ status' = CopiedStatus(successCount, errors)
       /\ isProcessing' = FALSE

\* renameImages from its call to its first await, or to its end when it
\* throws or meets no await.
RenameImagesCall ==
  /\ IF PreconditionFails
     THEN /\ thrown' = PreconditionMessage
          /\ UNCHANGED << refs, renaming, calls >>
     ELSE /\ Called("renameImages")
          /\ thrown' = ""
          /\ InFlight < MaxInFlight
          /\ \E r \in 1..MaxInFlight :
               /\ FreeRename(r)
               /\ IF outputDirHandle = NoHandle
                  THEN /\ status' = "Selecting output folder..."
                       /\ renaming' = [ renaming EXCEPT ![r].pc = "picker" ]
                       /\ UNCHANGED isProcessing
                  ELSE RunLoop(r, images, 0, 0, 0, outputDirHandle)
          /\ UNCHANGED << images, dirHandle, outputDirHandle, csvData,
                          selectedColumn, hasRawFiles >>
  /\ UNCHANGED << hasPicker, disk, selecting, parsing >>

\* The picker of selectOutputFolder resolves with h; renameImages goes on
\* into the loop.
OutputFolderPicked(r, h) ==
  /\ renaming[r].pc = "picker"
  /\ outputDirHandle' = h
  /\ RunLoop(r, images, 0, 0, 0, h)
  /\ UNCHANGED << images, dirHandle, csvData, selectedColumn, hasRawFiles,
                  hasPicker, disk, selecting, parsing, thrown, calls >>

\* A renameImages that goes on when selectOutputFolder returns false: the
\* loop finds no destination handle, attempts nothing and reports its
\* counters.
OutputFolderRejectIgnored(r) ==
  /\ renaming[r].pc = "picker"
  /\ status' = CopiedStatus(0, Unnamed(images, 1, Len(images)))
  /\ isProcessing' = FALSE
  /\ renaming' = [ renaming EXCEPT ![r] = IdleRename ]
  /\ UNCHANGED << images, dirHandle, outputDirHandle, csvData, selectedColumn,
                  hasRawFiles, hasPicker, disk, selecting, parsing, thrown,
                  calls >>

\* The picker of selectOutputFolder rejects; renameImages returns.
OutputFolderPickerRejects(r) ==
  /\ renaming[r].pc = "picker"
  /\ status' = "Error selecting output folder: The user aborted a request."
  /\ renaming' = [ renaming EXCEPT ![r] = IdleRename ]
  /\ UNCHANGED << images, dirHandle, outputDirHandle, csvData, isProcessing,
                  selectedColumn, hasRawFiles, hasPicker, disk, selecting,
                  parsing, thrown, calls >>

\* getFileHandle(newName, { create: true }) resolves: the entry exists now,
\* and the source file is looked up in the folder dirHandle holds now.
CreateResolves(r) ==
  LET call == renaming[r]
      name == call.images[call.index].newName IN
  /\ call.pc = "create"
  /\ disk' = IF name \in DOMAIN disk[call.newHandle] THEN disk
             ELSE [ disk EXCEPT ![call.newHandle] = (name :> "") @@ @ ]
  /\ renaming' = [ renaming EXCEPT ![r].pc = "read", ![r].source = dirHandle ]
  /\ UNCHANGED << refs, hasPicker, selecting, parsing, thrown, calls >>

\* getFileHandle(image.file.name) and getFile() resolve: the file is there.
ReadResolves(r) ==
  LET call == renaming[r]
      name == call.images[call.index].file.name IN
  /\ call.pc = "read"
  /\ name \in DOMAIN disk[call.source]
  /\ renaming' = [ renaming EXCEPT ![r].pc = "write",
                                   ![r].buffer = disk[call.source][name] ]
  /\ UNCHANGED << refs, hasPicker, disk, selecting, parsing, thrown, calls >>

\* A loop that takes the assets from images again after every write, not
\* from the array it began with.
WriteThenReload(r) ==
  LET call == renaming[r]
      name == call.images[call.index].newName IN
  /\ call.pc = "write"
  /\ disk' = [ disk EXCEPT ![call.newHandle] = (name :> call.buffer) @@ @ ]
  /\ RunLoop(r, images, call.index, call.successCount + 1,
             call.errorCount, outputDirHandle)
  /\ UNCHANGED << images, dirHandle, outputDirHandle, csvData, selectedColumn,
                  hasRawFiles, hasPicker, selecting, parsing, thrown, calls >>

\* A write that is not awaited: the loop goes on to the next asset while
\* the entry is still open and empty.
WriteNotAwaited(r) ==
  LET call == renaming[r] IN
  /\ call.pc = "write"
  /\ RunLoop(r, call.images, call.index, call.successCount + 1,
             call.errorCount, outputDirHandle)
  /\ UNCHANGED << images, dirHandle, outputDirHandle, csvData, selectedColumn,
                  hasRawFiles, hasPicker, disk, selecting, parsing, thrown, calls >>

\* createWritable(), arrayBuffer(), write() and close() resolve: the entry
\* holds the bytes, the asset is counted as copied and the loop goes on.
\* (The first three touch only the writer, and a rejection of any of the
\* four leaves the entry as it was.)
WriteResolves(r) ==
  LET call == renaming[r]
      name == call.images[call.index].newName IN
  /\ call.pc = "write"
  /\ disk' = [ disk EXCEPT ![call.newHandle] = (name :> call.buffer) @@ @ ]
  /\ RunLoop(r, call.images, call.index, call.successCount + 1,
             call.errorCount, outputDirHandle)
  /\ UNCHANGED << images, dirHandle, outputDirHandle, csvData, selectedColumn,
                  hasRawFiles, hasPicker, selecting, parsing, thrown, calls >>

\* A rejection that reaches the outer catch block and ends the batch.
ItemHalts(r) ==
  LET call == renaming[r] IN
  /\ call.pc \in { "create", "read", "write" }
  /\ renaming' = [ renaming EXCEPT ![r] = IdleRename ]
  /\ status' = "Process error: The requested file could not be read."
  /\ isProcessing' = FALSE
  /\ UNCHANGED << images, dirHandle, outputDirHandle, csvData, selectedColumn,
                  hasRawFiles, hasPicker, disk, selecting, parsing, thrown, calls >>

\* Any await of the asset's try block rejects: the catch block counts the
\* asset as an error and the loop goes on.
ItemRejects(r) ==
  LET call == renaming[r] IN
  /\ call.pc \in { "create", "read", "write" }
  /\ RunLoop(r, call.images, call.index, call.successCount,
             call.errorCount + 1, outputDirHandle)
  /\ UNCHANGED << images, dirHandle, outputDirHandle, csvData, selectedColumn,
                  hasRawFiles, hasPicker, disk, selecting, parsing, thrown, calls >>

(***************************************************************************)
(* The handlers of the page                                                *)
(***************************************************************************)

\* canRename of the page.
canRename ==
  Len(images) > 0 /\ Len(csvData) > 0 /\ ~Falsy(selectedColumn)

\* The Select Image Folder button, disabled while isProcessing.
SelectFolderClick ==
  /\ ~isProcessing
  /\ SelectFolderCall

\* handleCSVUpload up to the await of parseCSV; the input is disabled
\* while isProcessing.
HandleCSVUpload ==
  /\ ~isProcessing
  /\ ParseCSVCall

\* handleRename behind the Copy and Rename Images button, disabled while
\* isProcessing or not canRename.
HandleRename ==
  /\ canRename
  /\ ~isProcessing
  /\ RenameImagesCall

(***************************************************************************)
(* Specification                                                           *)
(***************************************************************************)

\* The composable called directly, and the column select of the page, the
\* writer of selectedColumn.
Next ==
  \/ SelectFolderCall
  \/ \E s \in 1..MaxInFlight, h \in InputFolders : SelectFolderPicked(s, h)
  \/ \E s \in 1..MaxInFlight : SelectFolderPickerRejects(s)
  \/ \E s \in 1..MaxInFlight : SelectFolderEntriesRejects(s)
  \/ \E s \in 1..MaxInFlight : SelectFolderReadRejects(s)
  \/ \E s \in 1..MaxInFlight : SelectFolderLoaded(s)
  \/ ParseCSVCall
  \/ \E data \in Datasets : ParseCSVComplete(data)
  \/ ParseCSVError
  \/ \E column \in Columns \cup { "" } : ColumnChange(column)
  \/ UpdatePreviewNamesCall
  \/ RenameImagesCall
  \/ \E r \in 1..MaxInFlight, h \in OutputFolders : OutputFolderPicked(r, h)
  \/ \E r \in 1..MaxInFlight : OutputFolderPickerRejects(r)
  \/ \E r \in 1..MaxInFlight : CreateResolves(r)
  \/ \E r \in 1..MaxInFlight : ReadResolves(r)
  \/ \E r \in 1..MaxInFlight : WriteResolves(r)
  \/ \E r \in 1..MaxInFlight : ItemRejects(r)

Spec == Init /\ [][Next]_vars

PageInit ==
  /\ Constructed
  /\ calls = [ selectFolder |-> MaxPageSelects, parseCSV |-> MaxPageUploads,
               renameImages |-> MaxPageRenames ]

\* The composable driven by the page alone.
PageNext ==
  \/ SelectFolderClick
  \/ \E s \in 1..MaxInFlight, h \in InputFolders : SelectFolderPicked(s, h)
  \/ \E s \in 1..MaxInFlight : SelectFolderPickerRejects(s)
  \/ \E s \in 1..MaxInFlight : SelectFolderEntriesRejects(s)
  \/ \E s \in 1..MaxInFlight : SelectFolderReadRejects(s)
  \/ \E s \in 1..MaxInFlight : SelectFolderLoaded(s)
  \/ HandleCSVUpload
  \/ \E data \in Datasets : HandleCSVUploadComplete(data)
  \/ ParseCSVError
  \/ \E column \in Columns \cup { "" } : ColumnChange(column)
  \/ HandleRename
  \/ \E r \in 1..MaxInFlight, h \in OutputFolders : OutputFolderPicked(r, h)
  \/ \E r \in 1..MaxInFlight : OutputFolderPickerRejects(r)
  \/ \E r \in 1..MaxInFlight : CreateResolves(r)
  \/ \E r \in 1..MaxInFlight : ReadResolves(r)
  \/ \E r \in 1..MaxInFlight : WriteResolves(r)
  \/ \E r \in 1..MaxInFlight : ItemRejects(r)

PageSpec == PageInit /\ [][PageNext]_vars

RepeatInit ==
  /\ Constructed
  /\ calls = [ selectFolder |-> MaxPageSelects, parseCSV |-> MaxRepeatUploads,
               renameImages |-> MaxRepeatRenames ]

\* The page with the Copy and Rename Images button used twice.
RepeatSpec == RepeatInit /\ [][PageNext]_vars

\* Every storage call of an export returns or throws.
StorageAnswers ==
  \E r \in 1..MaxInFlight :
    CreateResolves(r) \/ ReadResolves(r) \/ WriteResolves(r) \/ ItemRejects(r)

\* The page with storage that answers every call.
FairPageSpec == PageSpec /\ WF_vars(StorageAnswers)

(***************************************************************************)
(* The loop body of selectFolder, entry by entry                           *)
(***************************************************************************)

\* The files the loop is tried on.  Each group varies what one of the
\* functions of the loop body reads and keeps the rest fixed.
ProbeTypes ==
  { "", "application/octet-stream", "text/plain", "image/png", "image/jpeg",
    "image/webp", "image/x-canon-cr2" }
ProbeNames ==
  { "a.cr2", "B.DNG", "c.Nef", "notes.txt", "d.png", "e.JPG", "raw", "f.",
    "g.tar.arw" }
ProbeDates == { NoDate, 2, 5 }
ProbeSides == { 1, 145, 400, 401, 464, 800 }

ProbePictures ==
  { Undecodable }
    \cup { Decoded(w, h, b) : w \in ProbeSides, h \in ProbeSides, b \in BOOLEAN }
ProbePreviews ==
  { PreviewThrows, NoPreview } \cup { Preview(p) : p \in ProbePictures }

ClassifierProbes ==
  { ProbeFile(Photos, n, t, 9, NoExif, NoPreview, Decoded(4, 3, FALSE), TRUE,
              TRUE) :
      n \in ProbeNames, t \in ProbeTypes }
DateProbes ==
  { ProbeFile(Photos, "e.JPG", "image/jpeg", m,
              [ throws |-> x, DateTimeOriginal |-> o, CreateDate |-> c ],
              NoPreview, Decoded(4, 3, FALSE), TRUE, TRUE) :
      m \in { 0, 9 }, x \in BOOLEAN, o \in ProbeDates, c \in ProbeDates }
PictureProbes ==
  { ProbeFile(Photos, "d.png", "image/png", 9, NoExif, NoPreview, p, k, q) :
      p \in ProbePictures, k \in BOOLEAN, q \in BOOLEAN }
PreviewProbes ==
  { ProbeFile(Photos, "a.cr2", "", 9, NoExif, v, Undecodable, k, q) :
      v \in ProbePreviews, k \in BOOLEAN, q \in BOOLEAN }
ProbeFiles ==
  ClassifierProbes \cup DateProbes \cup PictureProbes \cup PreviewProbes

\* A selectFolder call inside its loop, holding the file getFile() gave.
LoopInit ==
  /\ images = << >>
  /\ dirHandle = Photos
  /\ outputDirHandle = NoHandle
  /\ csvData = << >>
  /\ status = "Reading images from folder..."
  /\ isProcessing = FALSE
  /\ selectedColumn = ""
  /\ hasRawFiles = FALSE
  /\ hasPicker = TRUE
  /\ disk = InitialDisk
  /\ \E file \in ProbeFiles :
       selecting = [ s \in 1..MaxInFlight |->
                       IF s = 1
                       THEN [ pc |-> "file", handle |-> Photos, file |-> file ]
                       ELSE IdleSelect ]
  /\ parsing = 0
  /\ renaming = [ r \in 1..MaxInFlight |-> IdleRename ]
  /\ thrown = ""
  /\ calls = [ selectFolder |-> 0, parseCSV |-> 0, renameImages |-> 0 ]

\* const { isSupported, isRaw } = isImageFile(file)
LoopClassify ==
  /\ selecting[1].pc = "file"
  /\ selecting' = [ selecting EXCEPT
                      ![1] = [ pc |-> "classified", handle |-> Photos,
                               file |-> selecting[1].file,
                               class |-> isImageFile(selecting[1].file) ] ]
  /\ UNCHANGED << refs, hasPicker, disk, parsing, renaming, thrown, calls >>

\* The supported file: Promise.all of getImageDateTime and
\* createImageThumbnail, and the asset made of what they resolve to.
LoopPush ==
  /\ selecting[1].pc = "classified"
  /\ selecting[1].class.isSupported
  /\ selecting' = [ selecting EXCEPT
                      ![1] = [ pc |-> "pushed", handle |-> Photos,
                               file |-> selecting[1].file,
                               class |-> selecting[1].class,
                               asset |-> AssetOf([ kind |-> "file",
                                                   name |-> selecting[1].file.name,
                                                   file |-> selecting[1].file ]) ] ]
  /\ UNCHANGED << refs, hasPicker, disk, parsing, renaming, thrown, calls >>

LoopNext ==
  \/ LoopClassify
  \/ LoopPush

LoopSpec == LoopInit /\ [][LoopNext]_vars

(***************************************************************************)
(* Properties                                                              *)
(***************************************************************************)

\* The place of an asset among the entries of the folder it was read from.
EnumerationPlace(img) ==
  LET entries == FolderEntries(img.file.dir) IN
  CHOOSE k \in 1..Len(entries) :
    entries[k].kind = "file" /\ entries[k].name = img.file.name

\* The text behind the last "." of a file name, and whether there is any.
HasExtension(name) == LastDot(name) > 0 /\ LastDot(name) < Len(name)
WrittenExtension(name) == SubSeq(name, LastDot(name) + 1, Len(name))

\* The extension a name is to be given: the one of the original name,
\* lower-cased, and "jpg" for an original name that has none.
ExtensionOrDefault(name) ==
  IF HasExtension(name) THEN toLowerCase(WrittenExtension(name)) ELSE "jpg"

\* The row an asset at position i is paired with has a value to give.
RowGives(i) ==
  /\ i <= Len(csvData)
  /\ selectedColumn \in DOMAIN csvData[i]
  /\ csvData[i][selectedColumn] # ""

\* C1: in every reachable state images is sorted non-decreasing by
\* dateTime, and assets of equal dateTime stand in the order in which their
\* folder enumerated them.
C1_SortedByCaptureTime ==
  \A i, j \in 1..Len(images) :
    i < j =>
      /\ images[i].dateTime <= images[j].dateTime
      /\ images[i].dateTime = images[j].dateTime
           => EnumerationPlace(images[i]) < EnumerationPlace(images[j])

\* C1 witness: a loaded, projected collection with a tie and with a pair
\* the sort has put in the opposite of the enumeration order.
C1_Witness ==
  /\ \E i, j \in 1..Len(images) :
       i < j /\ images[i].dateTime = images[j].dateTime
  /\ \E i, j \in 1..Len(images) :
       i < j /\ EnumerationPlace(images[i]) > EnumerationPlace(images[j])
  /\ \E i \in 1..Len(images) : images[i].newName # Undefined

\* C2: with a column c selected and a non-empty dataset, the asset at
\* sorted position i is named rows[i][c] + "." + the lower-cased extension
\* of its original name when row i exists and gives a non-empty value, and
\* is unnamed otherwise; only the position pairs an asset with a row.
C2_PairedByPosition ==
  (selectedColumn # "" /\ Len(csvData) > 0) =>
    \A i \in 1..Len(images) :
      images[i].newName =
        IF RowGives(i)
        THEN csvData[i][selectedColumn] \o "."
               \o ExtensionOrDefault(images[i].file.name)
        ELSE Undefined

\* C3: every asset that has a name has one that ends in "." and the
\* lower-cased extension of its original file name.
C3_ExtensionKept ==
  \A i \in 1..Len(images) :
    images[i].newName # Undefined =>
      endsWith(images[i].newName,
               "." \o ExtensionOrDefault(images[i].file.name))

\* C4: an asset whose original name has no extension (no "." or nothing
\* behind the last ".") and whose row gives the value v is named v + ".jpg".
C4_DefaultsToJpg ==
  (selectedColumn # "" /\ Len(csvData) > 0) =>
    \A i \in 1..Len(images) :
      (RowGives(i) /\ ~HasExtension(images[i].file.name)) =>
        images[i].newName = csvData[i][selectedColumn] \o ".jpg"

\* C5: updatePreviewNames is idempotent: for the asset collection of every
\* reachable state, every dataset and every column, a second call right
\* behind the first returns what the first returned.
C5_Idempotent ==
  \A data \in Datasets, column \in Columns \cup { "" } :
    LET once == updatePreviewNames(images, data, column) IN
    updatePreviewNames(once, data, column) = once

\* C5 witness: a projection that has named some assets and cleared others.
C5_Witness ==
  /\ Len(images) >= 2
  /\ selectedColumn # ""
  /\ \E i \in 1..Len(images) : images[i].newName # Undefined
  /\ \E i \in 1..Len(images) : images[i].newName = Undefined

\* C6: whenever no handler of the page is in progress, every asset's
\* newName is the projection of the current dataset and the current
\* selectedColumn at its position, and so is undefined for every asset when
\* selectedColumn or the dataset is empty.
C6_NamesFollowSelection ==
  InFlight = 0 =>
    /\ images = updatePreviewNames(images, csvData, selectedColumn)
    /\ (selectedColumn = "" \/ Len(csvData) = 0) =>
         \A i \in 1..Len(images) : images[i].newName = Undefined

\* The assets of images' are those of images, in the same order, with
\* nothing but newName changed.
AssetsKept ==
  /\ Len(images') = Len(images)
  /\ \A i \in 1..Len(images) :
       [ images'[i] EXCEPT !.newName = images[i].newName ] = images[i]

\* Nothing is enumerated, read or written, and no handler moves.
NoFolderWork ==
  UNCHANGED << dirHandle, outputDirHandle, hasRawFiles, isProcessing, disk,
               selecting, renaming >>

\* C7: updatePreviewNames changes nothing but the newName of assets.  Called
\* directly it leaves everything else as it is; called by the column select
\* or by parseCSV it leaves as it is everything its caller has not written
\* before the call (selectedColumn; csvData and status), and in no case is
\* a folder enumerated, metadata extracted or a thumbnail made.
C7_OnlyNamesChange ==
  [][ /\ UpdatePreviewNamesCall =>
           /\ AssetsKept
           /\ NoFolderWork
           /\ UNCHANGED << csvData, selectedColumn, status, parsing >>
      /\ (\E column \in Columns \cup { "" } : ColumnChange(column)) =>
           /\ AssetsKept
           /\ NoFolderWork
           /\ UNCHANGED << csvData, status, parsing >>
      /\ (\E data \in Datasets : ParseCSVComplete(data)) =>
           /\ AssetsKept
           /\ NoFolderWork
           /\ UNCHANGED selectedColumn ]_vars

\* C7 witness: a loaded folder whose assets a dataset load has named, some
\* of them not, with the status of the dataset load.
C7_Witness ==
  /\ dirHandle # NoHandle
  /\ Len(images) >= 2
  /\ status = "Loaded " \o ToString(Len(csvData)) \o " records from CSV"
  /\ \E i \in 1..Len(images) : images[i].newName # Undefined
  /\ \E i \in 1..Len(images) : ~images[i].isRaw /\ images[i].newName = Undefined

\* C8: a renameImages call made while the source handle is absent, or the
\* dataset or the asset collection is empty, or no column is selected,
\* throws to its caller and does nothing else: no picker is opened, nothing
\* is read, created or written, and all refs are as they were.
C8_PreconditionFailure ==
  [][ ( /\ RenameImagesCall
        /\ \/ dirHandle = NoHandle
           \/ csvData = << >>
           \/ images = << >>
           \/ selectedColumn = "" )
      => /\ thrown' = PreconditionMessage
         /\ UNCHANGED << refs, disk, renaming, selecting, parsing >> ]_vars

\* C8 witness: the call has thrown with a folder, assets and a dataset
\* there and only the column missing.
C8_Witness ==
  /\ thrown = PreconditionMessage
  /\ dirHandle # NoHandle
  /\ Len(images) > 0
  /\ Len(csvData) > 0
  /\ selectedColumn = ""

\* The positions of a renameImages call inside its loop.
LoopPcs == { "create", "read", "write" }

\* Call r gets into its loop in this step: from the output picker, or from
\* the call itself when the output folder is known.
BeginsBatch(r) ==
  \/ \E h \in OutputFolders : OutputFolderPicked(r, h)
  \/ /\ RenameImagesCall
     /\ ~PreconditionFails
     /\ outputDirHandle # NoHandle
     /\ FreeRename(r)

\* Call r ends the attempt on an asset in this step.
EndsAttempt(r) ==
  /\ renaming[r].pc \in LoopPcs
  /\ \/ renaming'[r].pc = "idle"
     \/ renaming'[r].index # renaming[r].index

\* The assets call r goes through, the position it stands at before the
\* step (0 before the first asset) and behind the step (one more than the
\* number of assets when the loop is over).
BatchAssets(r) ==
  IF renaming[r].pc \in LoopPcs THEN renaming[r].images ELSE images
PlaceBefore(r) ==
  IF renaming[r].pc \in LoopPcs THEN renaming[r].index ELSE 0
PlaceBehind(r) ==
  IF renaming'[r].pc \in LoopPcs THEN renaming'[r].index
  ELSE Len(BatchAssets(r)) + 1

\* C9: in an export batch every asset is gone through once, in order, each
\* adding one to exactly one of the two counters whether its attempt fails
\* or not, and the batch ends with succeeded + failed the number of assets:
\* a step that begins the batch or ends an attempt (resolved or rejected)
\* moves on to a later asset, passing only assets without a name, with
\* succeeded + failed the number of assets left behind.
C9_EveryAssetCounted ==
  [][ \A r \in 1..MaxInFlight :
        LET imgs == BatchAssets(r)
            i == PlaceBefore(r)
            j == PlaceBehind(r)
            S == renaming[r].successCount
            E == renaming[r].errorCount IN
        /\ (BeginsBatch(r) \/ EndsAttempt(r)) =>
             /\ j > i
             /\ \A k \in (i + 1)..(j - 1) : imgs[k].newName = Undefined
             /\ IF j <= Len(imgs)
                THEN /\ renaming'[r].images = imgs
                     /\ renaming'[r].successCount + renaming'[r].errorCount
                          = j - 1
                     /\ renaming'[r].successCount - S
                          \in (IF i = 0 THEN { 0 } ELSE { 0, 1 })
                     /\ isProcessing'
                ELSE /\ \E S2 \in (IF i = 0 THEN { 0 } ELSE { S, S + 1 }) :
                          status' = CopiedStatus(S2, Len(imgs) - S2)
                     /\ ~isProcessing'
        /\ (renaming[r].pc \in LoopPcs /\ ~EndsAttempt(r)) =>
             /\ renaming'[r].successCount = S
             /\ renaming'[r].errorCount = E
             /\ renaming'[r].images = imgs ]_vars

\* C9 witness: a batch of three assets stands at its last asset with one
\* asset copied and one attempt failed.
C9_Witness ==
  \E r \in 1..MaxInFlight :
    /\ renaming[r].pc \in LoopPcs
    /\ Len(renaming[r].images) = 3
    /\ renaming[r].index = 3
    /\ renaming[r].successCount = 1
    /\ renaming[r].errorCount = 1
    /\ \A k \in 1..3 : renaming[r].images[k].newName # Undefined

\* C10: in an export batch an asset without a newName is counted as failed
\* and nothing is done for it: the loop waits on a create, a read or a write
\* only for an asset that has a name, the assets without a name it passes
\* are in the failed counter, the disk changes only at the name of the asset
\* the loop stands at, and no entry is made under an absent name.
C10_UnnamedOnlyCounted ==
  [][ /\ \A r \in 1..MaxInFlight :
           LET imgs == BatchAssets(r)
               i == PlaceBefore(r)
               j == PlaceBehind(r)
               E == renaming[r].errorCount IN
           /\ renaming'[r].pc \in LoopPcs =>
                renaming'[r].images[renaming'[r].index].newName # Undefined
           /\ (BeginsBatch(r) \/ EndsAttempt(r)) =>
                IF j <= Len(imgs)
                THEN renaming'[r].errorCount - E >= Unnamed(imgs, i + 1, j - 1)
                ELSE \E S2 \in 0..Len(imgs) :
                       /\ status' = CopiedStatus(S2, Len(imgs) - S2)
                       /\ Len(imgs) - S2 - E >= Unnamed(imgs, i + 1, Len(imgs))
      /\ disk' # disk =>
           \E r \in 1..MaxInFlight :
             LET call == renaming[r]
                 name == call.images[call.index].newName IN
             /\ call.pc \in { "create", "write" }
             /\ name # Undefined
             /\ \A h \in Folders :
                  \A n \in DOMAIN disk'[h] :
                    (h # call.newHandle \/ n # name) =>
                      n \in DOMAIN disk[h] /\ disk'[h][n] = disk[h][n]
      /\ \A h \in Folders : Undefined \notin DOMAIN disk'[h] ]_vars

\* C10 witness: a batch has passed an asset without a name, counted it as
\* failed, and has made the entry for and read the named asset behind it.
C10_Witness ==
  \E r \in 1..MaxInFlight :
    LET call == renaming[r] IN
    /\ call.pc = "write"
    /\ call.index = 2
    /\ call.images[1].newName = Undefined
    /\ call.images[2].newName # Undefined
    /\ call.successCount = 0
    /\ call.errorCount = 1
    /\ call.images[2].newName \in DOMAIN disk[call.newHandle]
    /\ call.buffer = call.images[2].file.bytes

\* Call r ends its batch in this step; N assets, k of them without a name.
EndsBatch(r) ==
  /\ BeginsBatch(r) \/ EndsAttempt(r)
  /\ PlaceBehind(r) > Len(BatchAssets(r))

\* The batch is the first export of the run: the folders are as the pickers
\* found them when it began.
FirstExport ==
  calls'.renameImages = MaxRenameCalls - 1

\* C11: a batch over N assets, k of them without a newName, in which no
\* I/O call fails (so that the report is succeeded = N - k, failed = k)
\* leaves exactly N - k new entries in the destination: as many entries
\* are created as assets are counted as succeeded.
C11_EntriesMatchSucceeded ==
  [][ \A r \in 1..MaxInFlight :
        LET imgs == BatchAssets(r)
            N == Len(imgs)
            k == Unnamed(imgs, 1, N) IN
        ( /\ EndsBatch(r)
          /\ FirstExport
          /\ status' = CopiedStatus(N - k, k) )
        => Cardinality(DOMAIN disk'[outputDirHandle']
                         \ DOMAIN InitialDisk[outputDirHandle']) = N - k ]_vars

\* C12: when a batch has ended, the destination entry named by the newName
\* of every asset counted as succeeded holds the bytes of that asset's own
\* source file, whichever folder is the destination and whatever the
\* dataset.  (Stated for the batches whose report counts every named asset
\* as succeeded: there the counters tell which assets succeeded.)
C12_EntriesHoldOwnBytes ==
  [][ \A r \in 1..MaxInFlight :
        LET imgs == BatchAssets(r)
            N == Len(imgs)
            k == Unnamed(imgs, 1, N) IN
        ( /\ EndsBatch(r)
          /\ status' = CopiedStatus(N - k, k) )
        => \A i \in 1..N :
             imgs[i].newName # Undefined =>
               /\ imgs[i].newName \in DOMAIN disk'[outputDirHandle']
               /\ disk'[outputDirHandle'][imgs[i].newName] = imgs[i].file.bytes ]_vars

\* C13: when getFile rejects for one entry of a folder that could be opened
\* and enumerated, selectFolder skips the entry and completes: every other
\* supported entry is in the asset collection and the status is the
\* "Loaded ..." message.
C13_EntryFailureSkipped ==
  [][ \A s \in 1..MaxInFlight :
        SelectFolderReadRejects(s) =>
          LET entries == FolderEntries(selecting[s].handle) IN
          /\ SubSeq(status', 1, 7) = "Loaded "
          /\ \E k \in 1..Len(entries) :
               /\ entries[k].kind = "file"
               /\ \A j \in 1..Len(entries) :
                    ( /\ j # k
                      /\ entries[j].kind = "file"
                      /\ isImageFile(entries[j].file).isSupported )
                    => \E i \in 1..Len(images') :
                         images'[i].file = entries[j].file ]_vars

\* The file the loop body stands at, once it is classified, and its asset,
\* once it is pushed.
Classified == selecting[1].pc \in { "classified", "pushed" }
Pushed == selecting[1].pc = "pushed"

\* The extension of a name, lower-cased, is one of the RAW extensions.
RawByExtension(name) ==
  HasExtension(name) /\ toLowerCase(WrittenExtension(name)) \in RAW_EXTENSIONS

\* C14: isImageFile gives (isSupported, isRaw) = (true, true) for a file of
\* empty or non-specific MIME type whose extension, in any letter case, is a
\* RAW extension; (true, false) for a file of MIME type image/png,
\* image/jpeg or image/webp; (false, false) for a file of extension txt and
\* no recognized MIME type.
C14_ClassifierCases ==
  Classified =>
    LET file == selecting[1].file
        class == selecting[1].class IN
    /\ ( /\ file.type \in { "", "application/octet-stream" }
         /\ RawByExtension(file.name) )
       => class = [ isSupported |-> TRUE, isRaw |-> TRUE ]
    /\ file.type \in { "image/png", "image/jpeg", "image/webp" }
       => class = [ isSupported |-> TRUE, isRaw |-> FALSE ]
    /\ ( /\ file.type \notin SUPPORTED_FORMATS
         /\ HasExtension(file.name)
         /\ toLowerCase(WrittenExtension(file.name)) = "txt" )
       => class = [ isSupported |-> FALSE, isRaw |-> FALSE ]

\* C14 witness: B.DNG with a non-specific MIME type has been classified as
\* a supported RAW file.
C14_Witness ==
  /\ Classified
  /\ selecting[1].file.name = "B.DNG"
  /\ selecting[1].file.type = "application/octet-stream"
  /\ selecting[1].class.isSupported
  /\ selecting[1].class.isRaw

\* The RAW identifiers of the allow-list of MIME types.
RawTypes ==
  { "image/arw", "image/x-sony-arw", "image/cr2", "image/x-canon-cr2",
    "image/nef", "image/x-nikon-nef", "image/raf", "image/x-fuji-raf",
    "image/raw", "image/x-raw" }

\* C15: for every MIME type and file name, isRaw is (the MIME type is a RAW
\* identifier of the allow-list) or (the lower-cased extension is a RAW
\* extension), and isSupported is (the MIME type is in the allow-list) or
\* (the lower-cased extension is a RAW extension).
C15_EitherSignal ==
  Classified =>
    LET file == selecting[1].file
        class == selecting[1].class IN
    /\ class.isRaw = (file.type \in RawTypes \/ RawByExtension(file.name))
    /\ class.isSupported
         = (file.type \in SUPPORTED_FORMATS \/ RawByExtension(file.name))

\* C16: getImageDateTime never rejects and resolves to the embedded
\* DateTimeOriginal when there is one, else to the embedded CreateDate when
\* there is one, else, and whenever the parsing of the metadata throws, to
\* the last-modified time of the file.
C16_CaptureTime ==
  Pushed =>
    LET file == selecting[1].file
        dateTime == selecting[1].asset.dateTime IN
    /\ dateTime # NoDate
    /\ (~file.exif.throws /\ file.exif.DateTimeOriginal # NoDate)
         => dateTime = file.exif.DateTimeOriginal
    /\ ( /\ ~file.exif.throws
         /\ file.exif.DateTimeOriginal = NoDate
         /\ file.exif.CreateDate # NoDate )
         => dateTime = file.exif.CreateDate
    /\ ( \/ file.exif.throws
         \/ /\ file.exif.DateTimeOriginal = NoDate
            /\ file.exif.CreateDate = NoDate )
         => dateTime = file.lastModified

\* C16 witness: both dates are embedded and differ, and the asset has the
\* DateTimeOriginal, not the CreateDate and not the last-modified time.
C16_Witness ==
  /\ Pushed
  /\ ~selecting[1].file.exif.throws
  /\ selecting[1].file.exif.DateTimeOriginal = 2
  /\ selecting[1].file.exif.CreateDate = 5
  /\ selecting[1].file.lastModified = 9
  /\ selecting[1].asset.dateTime = 2

\* The thumbnail of the file in the loop must be a fallback: it is RAW and
\* the extraction of its embedded preview throws or finds none, or the
\* preview cannot be decoded or drawn; or it is a standard file that cannot
\* be decoded or whose canvas gives no context.
NeedsFallback ==
  LET file == selecting[1].file IN
  IF selecting[1].asset.isRaw
  THEN \/ file.preview.throws
       \/ ~file.preview.found
       \/ ~file.preview.picture.decodes
       \/ ~file.context
  ELSE ~file.picture.decodes \/ ~file.context

\* The placeholder image: "RAW" and the file name on a 400 by 400 canvas.
PlaceholderImage(filename) == DataURL(400, 400, "RAW " \o filename)

\* C17 as stated: createImageThumbnail never rejects, and whenever a RAW
\* asset's preview cannot be extracted, decoded or drawn, or a standard
\* asset cannot be decoded or drawn, the result is the placeholder made
\* from the file name.
C17_AsStated ==
  (Pushed /\ NeedsFallback) =>
    selecting[1].asset.thumbnail = PlaceholderImage(selecting[1].file.name)

\* C17 as amended: createImageThumbnail never rejects, and in each of those
\* cases the result is what generatePlaceholderThumbnail returns for the
\* file name: the placeholder image, the same for the same name, when the
\* canvas of the placeholder gives a 2d context, and the empty string when
\* it gives none.
C17_PlaceholderFallback ==
  Pushed =>
    LET file == selecting[1].file
        thumbnail == selecting[1].asset.thumbnail IN
    /\ thumbnail # Thrown
    /\ NeedsFallback =>
         /\ file.placeholderContext => thumbnail = PlaceholderImage(file.name)
         /\ ~file.placeholderContext => thumbnail = Empty

\* C17 witness: a RAW file whose embedded preview is found but does not
\* decode has the placeholder image.
C17_Witness ==
  /\ Pushed
  /\ selecting[1].asset.isRaw
  /\ selecting[1].file.preview.found
  /\ ~selecting[1].file.preview.picture.decodes
  /\ selecting[1].file.placeholderContext
  /\ selecting[1].asset.thumbnail = PlaceholderImage("a.cr2")

\* The picture a thumbnail was drawn from, when one was drawn.
DrawnFrom ==
  IF selecting[1].asset.isRaw
  THEN selecting[1].file.preview.picture
  ELSE selecting[1].file.picture
WasDrawn ==
  /\ Pushed
  /\ ~NeedsFallback

Max(a, b) == IF a >= b THEN a ELSE b
Abs(a) == IF a >= 0 THEN a ELSE 0 - a

\* C18: for a decoded picture of width w and height h the thumbnail is
\* w' by h' with max(w', h') <= 400, w' <= w and h' <= h; a picture with
\* max(w, h) <= 400 keeps its size; the longer edge is 400 when
\* max(w, h) > 400, the height when w <= h and the width otherwise; and
\* w'/h' is w/h within rounding: the scaled edge is less than one pixel
\* off or exactly one pixel off the proportional one.
C18_BoundedBox ==
  WasDrawn =>
    LET w == DrawnFrom.width
        h == DrawnFrom.height
        w2 == selecting[1].asset.thumbnail.width
        h2 == selecting[1].asset.thumbnail.height IN
    /\ Max(w2, h2) <= maxDimension
    /\ w2 <= w
    /\ h2 <= h
    /\ Max(w, h) <= maxDimension => (w2 = w /\ h2 = h)
    /\ Max(w, h) > maxDimension => Max(w2, h2) = maxDimension
    /\ (w <= h /\ h > maxDimension) => h2 = maxDimension
    /\ (w > h /\ w > maxDimension) => w2 = maxDimension
    /\ Abs(w2 * h - w * h2) <= Max(w, h)

\* C18 witness: a portrait picture of 145 by 464 is drawn 124 by 400 (the
\* floating point product falls below 125), a square one of 800 by 800 is
\* 400 by 400, and a small one keeps its size: here the first of them.
C18_Witness ==
  /\ WasDrawn
  /\ DrawnFrom.width = 145
  /\ DrawnFrom.height = 464
  /\ selecting[1].asset.thumbnail.width = 124
  /\ selecting[1].asset.thumbnail.height = 400

\* The selectFolder call that ends in this step is the only call of an
\* asynchronous handler the run has seen: the state before the call is the
\* state after construction.
FirstCallOfRun ==
  /\ calls.selectFolder = MaxSelectCalls - 1
  /\ calls.parseCSV = MaxParseCalls
  /\ calls.renameImages = MaxRenameCalls

\* C19: a selectFolder call that ends with an error, the user declining the
\* picker or the folder not being enumerable, reports the error in status
\* and leaves images, dirHandle, hasRawFiles, csvData and selectedColumn
\* with the values they had before the call (stated for the first call of
\* a run, where these are the values after construction).
C19_PriorStateRetained ==
  [][ \A s \in 1..MaxInFlight :
        ( /\ SelectFolderPickerRejects(s) \/ SelectFolderEntriesRejects(s)
          /\ FirstCallOfRun )
        => /\ SubSeq(status', 1, 7) = "Error: "
           /\ images' = << >>
           /\ dirHandle' = NoHandle
           /\ hasRawFiles' = FALSE
           /\ csvData' = << >>
           /\ selectedColumn' = "" ]_vars

\* No export but the one of call r has begun in the run (the pipeline runs
\* one export at a time).
OnlyExport ==
  calls.renameImages >= MaxPageRenames - 1

NewEntries(h) == DOMAIN disk[h] \ DOMAIN InitialDisk[h]

\* C21: within one export batch the assets are attempted one after another
\* in their sorted order.  The attempt on a later asset starts only in the
\* step in which the attempt on the current one has finished: its entry is
\* written and closed, or the attempt has failed and is counted.  An
\* attempt goes create, read, write on one asset, so the batch has at most
\* one entry open for writing, and an entry the batch creates is the one of
\* the asset it is at, created in the first step of the attempt: the
\* entries are created in ascending asset order.
C21_OneAfterAnother ==
  [][ \A r \in 1..MaxInFlight :
        LET call == renaming[r]
            after == renaming'[r] IN
        /\ ( /\ BeginsBatch(r) \/ EndsAttempt(r)
             /\ after.pc \in LoopPcs )
           => /\ after.pc = "create"
              /\ after.index > PlaceBefore(r)
              /\ after.images = BatchAssets(r)
        /\ ( /\ call.pc \in LoopPcs
             /\ ~EndsAttempt(r) )
           => /\ after.index = call.index
              /\ << call.pc, after.pc >> \in
                   { << "create", "create" >>, << "create", "read" >>,
                     << "read", "read" >>, << "read", "write" >>,
                     << "write", "write" >> }
              /\ after.successCount = call.successCount
              /\ after.errorCount = call.errorCount
        /\ ( /\ call.pc \in LoopPcs
             /\ EndsAttempt(r)
             /\ after.pc \in LoopPcs )
           => \/ /\ call.pc = "write"
                 /\ disk'[call.newHandle][call.images[call.index].newName]
                      = call.buffer
                 /\ after.successCount = call.successCount + 1
                 /\ after.errorCount
                      = call.errorCount
                          + Unnamed(call.images, call.index + 1, after.index - 1)
              \/ /\ after.successCount = call.successCount
                 /\ after.errorCount
                      = call.errorCount + 1
                          + Unnamed(call.images, call.index + 1, after.index - 1)
                 /\ disk' = disk
        /\ ( /\ call.pc \in LoopPcs
             /\ after # call )
           => \A h \in Folders :
                \A n \in DOMAIN disk'[h] \ DOMAIN disk[h] :
                  /\ call.pc = "create"
                  /\ h = call.newHandle
                  /\ n = call.images[call.index].newName ]_vars

\* C21 witness: the attempt on a second asset has started, and the entry of
\* an asset before it is written, holding that asset's bytes.
C21_Witness ==
  \E r \in 1..MaxInFlight :
    LET call == renaming[r] IN
    /\ call.pc = "create"
    /\ call.successCount = 1
    /\ call.images[call.index].newName \notin DOMAIN disk[call.newHandle]
    /\ \E i \in 1..(call.index - 1) :
         /\ call.images[i].newName \in NewEntries(call.newHandle)
         /\ disk[call.newHandle][call.images[i].newName] = call.images[i].file.bytes

\* C22: whenever an export reads an asset's bytes again, the folder it reads
\* from, the one dirHandle holds at that moment, is the folder the asset was
\* enumerated from; and whenever no selectFolder call is in flight, every
\* asset of the collection was enumerated from the folder dirHandle holds.
C22_SourceIsOwnFolder ==
  /\ \A r \in 1..MaxInFlight :
       renaming[r].pc \in { "read", "write" } =>
         renaming[r].source = renaming[r].images[renaming[r].index].file.dir
  /\ (\A s \in 1..MaxInFlight : selecting[s].pc = "idle") =>
       \A i \in 1..Len(images) : images[i].file.dir = dirHandle

OutputFolderError == "Error selecting output folder: "

\* C23: a renameImages call that gets past its precondition while there is
\* no destination handle asks for one first.  When the request is declined
\* or fails, the export ends there: no asset is attempted, nothing is read
\* or written, isProcessing is left as it is, and status carries the
\* output-folder error and no count summary.  Once there is a destination
\* handle there is one from then on, and a call that finds one asks for no
\* other: outputDirHandle is assigned only by the answer to a request made
\* while there was none.  Nothing is written to a folder while
\* outputDirHandle is absent.
C23_NoFolderNoExport ==
  [][ /\ calls'.renameImages # calls.renameImages =>
           IF outputDirHandle = NoHandle
           THEN /\ \E r \in 1..MaxInFlight :
                     /\ renaming[r].pc = "idle"
                     /\ renaming'[r].pc = "picker"
                /\ status' = "Selecting output folder..."
                /\ outputDirHandle' = NoHandle
                /\ isProcessing' = isProcessing
                /\ disk' = disk
           ELSE /\ \A r \in 1..MaxInFlight :
                     renaming'[r].pc = "picker" => renaming[r].pc = "picker"
                /\ outputDirHandle' = outputDirHandle
      /\ \A r \in 1..MaxInFlight :
           /\ OutputFolderPickerRejects(r) =>
                /\ renaming'[r] = IdleRename
                /\ SubSeq(status', 1, Len(OutputFolderError)) = OutputFolderError
                /\ isProcessing' = isProcessing
                /\ outputDirHandle' = outputDirHandle
                /\ disk' = disk
           /\ ( /\ renaming[r].pc = "picker"
                /\ renaming'[r].pc # "picker"
                /\ ~OutputFolderPickerRejects(r) )
              => outputDirHandle' # NoHandle
           /\ renaming'[r].pc \in LoopPcs =>
                /\ outputDirHandle' # NoHandle
                /\ renaming'[r].newHandle # NoHandle
      /\ outputDirHandle # NoHandle => outputDirHandle' # NoHandle
      /\ outputDirHandle' # outputDirHandle =>
           \E r \in 1..MaxInFlight :
             /\ renaming[r].pc = "picker"
             /\ renaming'[r].pc # "picker"
      /\ disk' # disk => outputDirHandle # NoHandle ]_vars

\* C23 witness: the output picker was declined: the call has ended, there
\* is still no destination handle, nothing was written, and status is the
\* output-folder error.
C23_Witness ==
  /\ calls.renameImages < MaxRepeatRenames
  /\ Len(status) > Len(OutputFolderError)
  /\ SubSeq(status, 1, Len(OutputFolderError)) = OutputFolderError
  /\ \A r \in 1..MaxInFlight : renaming[r].pc = "idle"
  /\ outputDirHandle = NoHandle
  /\ ~isProcessing
  /\ disk = InitialDisk

\* C24: driven through the handlers of the page, at most one renameImages
\* run is under way at any time, whether it waits for the output folder or
\* is in its loop: a second use of the Copy and Rename Images button starts
\* no run before the first has ended.
C24_OneExportAtATime ==
  Cardinality({ r \in 1..MaxInFlight : renaming[r].pc # "idle" }) <= 1

\* C25: an export batch uses the target names as they are when its loop
\* starts.  The assets the loop goes over are the collection of that moment
\* and stay the same to the end of the batch, whatever updatePreviewNames
\* makes of images in between, and every destination entry the batch
\* creates or writes is named by the newName the asset of the attempt had
\* when the loop started.
C25_NamesOfBatchStart ==
  [][ \A r \in 1..MaxInFlight :
        LET call == renaming[r]
            after == renaming'[r] IN
        /\ ( /\ BeginsBatch(r)
             /\ after.pc \in LoopPcs )
           => after.images = images
        /\ ( /\ call.pc \in LoopPcs
             /\ after.pc \in LoopPcs )
           => after.images = call.images
        /\ ( /\ call.pc \in LoopPcs
             /\ after # call )
           => \A h \in Folders :
                \A n \in DOMAIN disk'[h] :
                  ( n \notin DOMAIN disk[h] \/ disk'[h][n] # disk[h][n] )
                  => /\ h = call.newHandle
                     /\ n = call.images[call.index].newName ]_vars

\* C25 witness: the projection has changed the name of the asset a batch
\* is at since the loop started, and the entry the batch has created for it
\* has the name of the start; none has the new name.
C25_Witness ==
  \E r \in 1..MaxInFlight :
    LET call == renaming[r] IN
    /\ call.pc \in { "read", "write" }
    /\ Len(images) = Len(call.images)
    /\ images[call.index].file = call.images[call.index].file
    /\ images[call.index].newName # call.images[call.index].newName
    /\ images[call.index].newName # Undefined
    /\ call.images[call.index].newName \in NewEntries(call.newHandle)
    /\ images[call.index].newName \notin DOMAIN disk[call.newHandle]

====
